---- MODULE Spec2Model ----
(***************************************************************************)
(* A model of mmlib's save/recover layer.                                  *)
(*                                                                         *)
(*   Spec   the save/recover orchestrator (mmlib/save.py,                  *)
(*          SimpleSaveRecoverService): two callers of one service whose    *)
(*          calls run one at a time, with store and file-system errors     *)
(*          raised at every step that can raise.                           *)
(*                                                                         *)
(*   SpecW  one restorable-object wrapper (schema/restorable_object.py)    *)
(*          constructed, persisted, loaded and restored by a client.       *)
(*                                                                         *)
(* Ids are the strings str(ObjectId). Python's None is the string "None"    *)
(* where the other values are strings, and NoneVal among tagged values.    *)
(***************************************************************************)
EXTENDS Integers, Sequences, FiniteSets, TLC

VARIABLES
    blobs,      \* blob store: file id -> content of the saved file
    records,    \* record store: record id -> document (with its collection)
    nextId,     \* number of ids minted so far by the persistence service
    files,      \* local file system: path -> content
    call,       \* per caller: the running call, its position and its locals
    ncalls,     \* number of calls started so far
    returned,   \* ids returned by completed save_model calls
    w,          \* the restorable-object wrapper the client holds
    wpc,        \* position inside a running persist of w
    wdict,      \* dict_representation being built by the running persist
    wpre,       \* the stores as they were when the last persist started
    config,     \* the [VALUES] section of the file MMLIB_CONFIG names
    last,       \* the last wrapper operation, its arguments and its outcome
    trip,       \* progress of a persist / load / restore_instance round trip
    nops,       \* number of wrapper operations started so far
    cwd,        \* the process's working directory, relative to where it started
    tmp_abs     \* whether the service's tmp_path is an absolute path

\* state of the orchestrator's callers
svars == <<call, ncalls, returned>>

\* state of the wrapper's client
wvars == <<w, wpc, wdict, wpre, config, last, trip, nops>>

\* state of the process the threads share
cvars == <<cwd, tmp_abs>>

vars == <<blobs, records, nextId, files, svars, wvars, cvars>>

----
\* Bounds of the model.

\* calls started in one behaviour
MaxCalls == 3

\* save calls started in one behaviour in which the threads run concurrently
MaxConcurrentCalls == 2

\* The threads calling the one service object.
Callers == {"t1", "t2"}

\* Weight states a model passed to a save can be in.
Weights == {"w1", "w2"}

\* generate_call strings passed by callers.
GenerateCalls == {"Net()"}

----
\* Names of save.py.

None == "None"

MODEL_INFO == "model_info"

RECOVER_T1 == "recover_t1"

\* SaveType.PICKLED_MODEL
PICKLED_MODEL == "SaveType.PICKLED_MODEL"

\* self._tmp_path of the service
TmpPath == "tmp"

\* the caller's code file, outside the temporary root
CodePath == <<"src", "m.py">>

CodeContent == [kind |-> "code", text |-> "class Net"]

\* return values
NoneVal == [tag |-> "None"]

StrVal(s) == [tag |-> "str", val |-> s]

IntVal(n) == [tag |-> "int", val |-> n]

----
\* Python values of restorable_object.py.

ListVal(names) == [tag |-> "list", val |-> names]

DictVal(names) == [tag |-> "dict", val |-> names]

PathVal(p) == [tag |-> "path", val |-> p]

\* an instance of class cls built with constructor arguments args and
\* reference arguments named refs, whose internal state is state
ObjVal(cls, args, refs, state) ==
    [tag |-> "obj", cls |-> cls, args |-> args, refs |-> refs, state |-> state]

\* bool(v) as `if v:` takes it
Truthy(v) ==
    CASE v.tag = "None" -> FALSE
      [] v.tag \in {"list", "dict"} -> v.val # {}
      [] OTHER -> TRUE

\* `v is None`
IsNone(v) == v.tag = "None"

\* set(v) of a list, set(v.keys()) of a dict, empty for None
NameSet(v) == IF v.tag \in {"list", "dict"} THEN v.val ELSE {}

EmptyDict == [x \in {} |-> None]

RESTORABLE_OBJECT == "restorable_object"

CODE_FILE == "code_file"

CLASS_NAME == "class_name"

IMPORT_CMD == "import_cmd"

INIT_ARGS == "init_args"

CONFIG_ARGS == "config_args"

INIT_REF_TYPE_ARGS == "init_ref_type_args"

STATE_FILE == "state_file"

STATE_DICT == "state_dict"

\* the key the record store files a document under
MONGO_ID == "_id"

\* restore_root of the loads
RestoreRoot == "restore"

----
\* Bounds and inputs of the wrapper's client.

\* wrapper operations started in one behaviour
MaxOps == 4

\* the configurations the environment can hold: key -> value
Configs == {[k \in {"lr_key"} |-> "0.1"], [k \in {"lr_key"} |-> "0.5"]}

\* the configuration the environment starts with
DefaultConfig == [k \in {"lr_key"} |-> "0.1"]

\* literal constructor arguments
InitArgsChoices == {[a \in {"lr"} |-> "0.01"]}

\* config arguments: argument name -> configuration key
ConfigArgsChoices ==
    {EmptyDict, [a \in {"lr"} |-> "lr_key"], [a \in {"momentum"} |-> "lr_key"]}

\* declared reference-argument names
DeclaredRefChoices == {NoneVal, ListVal({}), ListVal({"net"})}

\* reference arguments supplied to restore_instance
SuppliedRefChoices == {NoneVal, DictVal({}), DictVal({"net"}), DictVal({"data"})}

\* code argument of a constructor
CodeChoices == {NoneVal, PathVal(CodePath)}

\* import_cmd argument of a constructor
ImportChoices == {NoneVal, StrVal("from m import Net")}

\* internal states of a live instance: as constructed, or changed since
FreshState == "fresh"

InstanceStates == {"trained"}

NoWrapper == [kind |-> "none"]

NoOp == [op |-> "none", result |-> "none", ret |-> NoneVal, refs |-> NoneVal,
         before |-> NoWrapper]

NoTrip == [phase |-> "none", id |-> None, orig |-> NoWrapper, code |-> NoneVal]

----
\* The persistence service and the local file system.

\* str(ObjectId()): the n-th id minted
IdOf(n) == ToString(n)

\* a function extended or overwritten at one point
Put(f, k, v) == [x \in DOMAIN f \cup {k} |-> IF x = k THEN v ELSE f[x]]

\* a function with some points removed
Drop(f, ks) == [x \in DOMAIN f \ ks |-> f[x]]

\* MongoService.add_attribute: update_one with $set on the stored document
AddAttribute(rs, id, k, v) == [rs EXCEPT ![id] = Put(rs[id], k, v)]

\* file_size(file_id): the size in bytes of a stored blob, one unit per field
FileSize(b) == Cardinality(DOMAIN b)

\* dict_size(dict_id, represent_type): the encoded size of a stored record, one
\* unit per field
DictSize(d) == Cardinality(DOMAIN d)

\* os.path.join(self._tmp_path, id)
DstPath(id) == <<TmpPath, id>>

\* os.path.join(path, name + '.zip')
ZipPath(id) == <<TmpPath, id \o ".zip">>

\* paths under the temporary working root
UnderTmp == {p \in DOMAIN files : p[1] = TmpPath}

IdleCall == [op |-> "idle", pc |-> "idle", seq |-> 0, model |-> None, arg |-> None,
             generate_call |-> None, dst |-> None, zip_file_id |-> None,
             code_file_id |-> None, recover_info_id |-> None, ret |-> NoneVal,
             owd |-> <<>>]

\* the service and its stores after construction, the process where it started
Constructed ==
    /\ blobs = [i \in {} |-> None]
    /\ records = [i \in {} |-> None]
    /\ nextId = 0
    /\ files = [p \in {CodePath} |-> CodeContent]
    /\ call = [c \in Callers |-> IdleCall]
    /\ ncalls = 0
    /\ returned = {}
    /\ w = NoWrapper
    /\ wpc = "idle"
    /\ wdict = EmptyDict
    /\ wpre = [blobs |-> blobs, records |-> records]
    /\ config = DefaultConfig
    /\ last = NoOp
    /\ trip = NoTrip
    /\ nops = 0
    /\ cwd = <<>>

Init == Constructed /\ tmp_abs = TRUE

\* tmp_path is whatever string the service was constructed with
InitC == Constructed /\ tmp_abs \in BOOLEAN

\* a caller that is not inside a call
Outside(c) == call[c].pc \in {"idle", "done", "failed"}

\* a caller that may start a call: calls are synchronous and run one at a time
CanStart(c) == ncalls < MaxCalls /\ \A d \in Callers : Outside(d)

\* the running call of caller c raises: the exception leaves the call as it is
Raise(c) == call' = [call EXCEPT ![c].pc = "failed"]

----
\* save_model

\* dst_path = os.path.join(self._tmp_path, self._pers_service.generate_id())
SaveModelBegin(c, m, g) ==
    /\ CanStart(c)
    /\ call' = [call EXCEPT ![c] = [IdleCall EXCEPT !.op = "save_model", !.pc = "pickle",
                                        !.seq = ncalls + 1,
                                        !.model = m, !.generate_call = g,
                                        !.dst = IdOf(nextId + 1)]]
    /\ nextId' = nextId + 1
    /\ ncalls' = ncalls + 1
    /\ UNCHANGED <<blobs, records, files, returned>>

\* _pickle_model up to _store_code: the staging directory with the pickled
\* model and the copied code; os.makedirs may raise
PickleModel(c) ==
    /\ call[c].pc = "pickle"
    /\ \/ /\ files' = Put(files, DstPath(call[c].dst),
                          [kind |-> "dir", model |-> call[c].model, code |-> files[CodePath]])
          /\ call' = [call EXCEPT ![c].pc = "zip"]
       \/ /\ Raise(c)
          /\ UNCHANGED files
    /\ UNCHANGED <<blobs, records, nextId, ncalls, returned>>

\* _zip: the archive beside the staging directory; zip_dir may raise
Zip(c) ==
    /\ call[c].pc = "zip"
    /\ \/ /\ files' = Put(files, ZipPath(call[c].dst),
                          [kind |-> "zip", of |-> files[DstPath(call[c].dst)]])
          /\ call' = [call EXCEPT ![c].pc = "save_zip"]
       \/ /\ Raise(c)
          /\ UNCHANGED files
    /\ UNCHANGED <<blobs, records, nextId, ncalls, returned>>

\* zip_file_id = self._pers_service.save_file(zip_file)
SaveZipFile(c) ==
    /\ call[c].pc = "save_zip"
    /\ \/ /\ blobs' = Put(blobs, IdOf(nextId + 1), files[ZipPath(call[c].dst)])
          /\ nextId' = nextId + 1
          /\ call' = [call EXCEPT ![c].zip_file_id = IdOf(nextId + 1), ![c].pc = "save_code"]
       \/ /\ Raise(c)
          /\ UNCHANGED <<blobs, nextId>>
    /\ UNCHANGED <<records, files, ncalls, returned>>

\* SaveCodeFile with a compensating delete: when the upload of the code fails,
\* the archive blob uploaded before it is removed again
SaveCodeFileRollsBack(c) ==
    /\ call[c].pc = "save_code"
    /\ \/ /\ blobs' = Put(blobs, IdOf(nextId + 1), files[CodePath])
          /\ nextId' = nextId + 1
          /\ call' = [call EXCEPT ![c].code_file_id = IdOf(nextId + 1), ![c].pc = "clean"]
       \/ /\ Raise(c)
          /\ blobs' = Drop(blobs, {call[c].zip_file_id})
          /\ UNCHANGED nextId
    /\ UNCHANGED <<records, files, ncalls, returned>>

\* code_file_id = self._pers_service.save_file(code)
SaveCodeFile(c) ==
    /\ call[c].pc = "save_code"
    /\ \/ /\ blobs' = Put(blobs, IdOf(nextId + 1), files[CodePath])
          /\ nextId' = nextId + 1
          /\ call' = [call EXCEPT ![c].code_file_id = IdOf(nextId + 1), ![c].pc = "clean"]
       \/ /\ Raise(c)
          /\ UNCHANGED <<blobs, nextId>>
    /\ UNCHANGED <<records, files, ncalls, returned>>

\* self._clean(dst_path); self._clean(zip_file)
Clean(c) ==
    /\ call[c].pc = "clean"
    /\ files' = Drop(files, {DstPath(call[c].dst), ZipPath(call[c].dst)})
    /\ call' = [call EXCEPT ![c].pc = "save_recover_info"]
    /\ UNCHANGED <<blobs, records, nextId, ncalls, returned>>

\* RecoverInfoDict with the two blob ids exchanged
RecoverInfoDictSwapped(c) ==
    [kind |-> RECOVER_T1,
     pickled_model |-> call[c].code_file_id,
     model_code |-> call[c].zip_file_id,
     generate_call |-> call[c].generate_call,
     recover_val |-> None]

\* the recover_info_t1 dict of save_model
RecoverInfoDict(c) ==
    [kind |-> RECOVER_T1,
     pickled_model |-> call[c].zip_file_id,
     model_code |-> call[c].code_file_id,
     generate_call |-> call[c].generate_call,
     recover_val |-> None]

\* SaveRecoverInfo with the store's error swallowed: the call goes on without
\* a RecoverInfo record
SaveRecoverInfoSwallowed(c) ==
    /\ call[c].pc = "save_recover_info"
    /\ \/ /\ records' = Put(records, IdOf(nextId + 1), RecoverInfoDict(c))
          /\ nextId' = nextId + 1
          /\ call' = [call EXCEPT ![c].recover_info_id = IdOf(nextId + 1),
                                  ![c].pc = "save_model_info"]
       \/ /\ call' = [call EXCEPT ![c].pc = "save_model_info"]
          /\ UNCHANGED <<records, nextId>>
    /\ UNCHANGED <<blobs, files, ncalls, returned>>

\* recover_info_id = self._pers_service.save_dict(recover_info_t1, RECOVER_T1)
SaveRecoverInfo(c) ==
    /\ call[c].pc = "save_recover_info"
    /\ \/ /\ records' = Put(records, IdOf(nextId + 1), RecoverInfoDict(c))
          /\ nextId' = nextId + 1
          /\ call' = [call EXCEPT ![c].recover_info_id = IdOf(nextId + 1),
                                  ![c].pc = "save_model_info"]
       \/ /\ Raise(c)
          /\ UNCHANGED <<records, nextId>>
    /\ UNCHANGED <<blobs, files, ncalls, returned>>

\* ModelDict with the RecoverInfo id written to derived_from as well
ModelDictDerivedFromRecoverInfo(c) ==
    [kind |-> MODEL_INFO,
     name |-> "model",
     store_type |-> PICKLED_MODEL,
     recover_info |-> call[c].recover_info_id,
     derived_from |-> call[c].recover_info_id,
     inference_info |-> None,
     train_info |-> None]

\* the model_dict of save_model
ModelDict(c) ==
    [kind |-> MODEL_INFO,
     name |-> "model",
     store_type |-> PICKLED_MODEL,
     recover_info |-> call[c].recover_info_id,
     derived_from |-> None,
     inference_info |-> None,
     train_info |-> None]

\* SaveModelInfo followed by an add_attribute on the stored RecoverInfo record,
\* in the manner of _add_save_path
SaveModelInfoAddsAttribute(c) ==
    /\ call[c].pc = "save_model_info"
    /\ \/ /\ records' = AddAttribute(Put(records, IdOf(nextId + 1), ModelDict(c)),
                                       call[c].recover_info_id, "save_path",
                                       DstPath(call[c].dst))
          /\ nextId' = nextId + 1
          /\ call' = [call EXCEPT ![c].ret = StrVal(IdOf(nextId + 1)), ![c].pc = "done"]
          /\ returned' = returned \cup {IdOf(nextId + 1)}
       \/ /\ Raise(c)
          /\ UNCHANGED <<records, nextId, returned>>
    /\ UNCHANGED <<blobs, files, ncalls>>

\* model_id = self._pers_service.save_dict(model_dict, MODEL_INFO); return model_id
SaveModelInfo(c) ==
    /\ call[c].pc = "save_model_info"
    /\ \/ /\ records' = Put(records, IdOf(nextId + 1), ModelDict(c))
          /\ nextId' = nextId + 1
          /\ call' = [call EXCEPT ![c].ret = StrVal(IdOf(nextId + 1)), ![c].pc = "done"]
          /\ returned' = returned \cup {IdOf(nextId + 1)}
       \/ /\ Raise(c)
          /\ UNCHANGED <<records, nextId, returned>>
    /\ UNCHANGED <<blobs, files, ncalls>>

----
\* save_model called from threads that run concurrently: the steps of
\* _pickle_model and _zip that read or change the working directory.

\* os.path.abspath / the lookup of a path built from tmp_path
Resolve(p) == IF tmp_abs THEN p ELSE cwd \o p

\* proper ancestors of p below the temporary root, which exists: os.makedirs
\* creates the missing ones
Parents(p) == {SubSeq(p, 1, n) : n \in 2..(Len(p) - 1)}

\* os.makedirs(p) followed by the writes into p
MakeDirs(fs, p, content) ==
    [q \in DOMAIN fs \cup Parents(p) \cup {p} |->
        IF q = p THEN content
        ELSE IF q \in DOMAIN fs THEN fs[q]
        ELSE [kind |-> "parent"]]

\* os.chdir(p) succeeds on the temporary root and on directories made since
IsDir(p) == p = <<TmpPath>> \/ (p \in DOMAIN files /\ files[p].kind \in {"dir", "parent"})

\* an archive of a directory that is not there: os.walk yields no file
EmptyZip == [kind |-> "zip", of |-> [kind |-> "nothing"]]

\* dst_path = os.path.join(self._tmp_path, self._pers_service.generate_id())
ConcSaveModel(c, m, g) ==
    /\ Outside(c)
    /\ ncalls < MaxConcurrentCalls
    /\ call' = [call EXCEPT ![c] = [IdleCall EXCEPT !.op = "save_model", !.pc = "c_pickle",
                                        !.seq = ncalls + 1,
                                        !.model = m, !.generate_call = g,
                                        !.dst = IdOf(nextId + 1)]]
    /\ nextId' = nextId + 1
    /\ ncalls' = ncalls + 1
    /\ UNCHANGED <<blobs, records, files, returned, cwd>>

\* _pickle_model up to _store_code: abs_save_path is taken from the working
\* directory of this moment, and everything is written below it
ConcPickleModel(c) ==
    /\ call[c].pc = "c_pickle"
    /\ files' = MakeDirs(files, Resolve(DstPath(call[c].dst)),
                         [kind |-> "dir", model |-> call[c].model, code |-> files[CodePath]])
    /\ call' = [call EXCEPT ![c].pc = "c_zip_enter"]
    /\ UNCHANGED <<blobs, records, nextId, ncalls, returned, cwd>>

\* _zip: owd = os.getcwd(); os.chdir(path)
ConcZipEnter(c) ==
    /\ call[c].pc = "c_zip_enter"
    /\ \/ /\ IsDir(Resolve(<<TmpPath>>))
          /\ cwd' = Resolve(<<TmpPath>>)
          /\ call' = [call EXCEPT ![c].owd = cwd, ![c].pc = "c_zip_dir"]
       \/ /\ ~IsDir(Resolve(<<TmpPath>>))
          /\ call' = [call EXCEPT ![c].owd = cwd, ![c].pc = "failed"]
          /\ UNCHANGED cwd
    /\ UNCHANGED <<blobs, records, nextId, files, ncalls, returned>>

\* _zip: zip_dir(name, zip_name), both names relative to the working directory
ConcZipDir(c) ==
    /\ call[c].pc = "c_zip_dir"
    /\ LET name == cwd \o <<call[c].dst>>
           zip_name == cwd \o <<call[c].dst \o ".zip">>
       IN \/ /\ name \in DOMAIN files
             /\ files' = Put(files, zip_name, [kind |-> "zip", of |-> files[name]])
             /\ call' = [call EXCEPT ![c].pc = "c_zip_leave"]
          \/ /\ name \notin DOMAIN files
             /\ files' = Put(files, zip_name, EmptyZip)
             /\ call' = [call EXCEPT ![c].pc = "c_zip_leave"]
          \/ /\ name \notin DOMAIN files
             /\ Raise(c)
             /\ UNCHANGED files
    /\ UNCHANGED <<blobs, records, nextId, ncalls, returned, cwd>>

\* _zip: os.chdir(owd); return os.path.join(path, zip_name)
ConcZipLeave(c) ==
    /\ call[c].pc = "c_zip_leave"
    /\ cwd' = call[c].owd
    /\ call' = [call EXCEPT ![c].pc = "c_save_files"]
    /\ UNCHANGED <<blobs, records, nextId, files, ncalls, returned>>

\* zip_file_id = save_file(zip_file); code_file_id = save_file(code)
ConcSaveFiles(c) ==
    /\ call[c].pc = "c_save_files"
    /\ LET zip_file == Resolve(ZipPath(call[c].dst))
       IN \/ /\ zip_file \in DOMAIN files
             /\ blobs' = Put(Put(blobs, IdOf(nextId + 1), files[zip_file]),
                             IdOf(nextId + 2), files[CodePath])
             /\ nextId' = nextId + 2
             /\ call' = [call EXCEPT ![c].zip_file_id = IdOf(nextId + 1),
                                     ![c].code_file_id = IdOf(nextId + 2),
                                     ![c].pc = "c_clean"]
          \/ /\ zip_file \notin DOMAIN files
             /\ Raise(c)
             /\ UNCHANGED <<blobs, nextId>>
    /\ UNCHANGED <<records, files, ncalls, returned, cwd>>

\* self._clean(dst_path); self._clean(zip_file): os.remove raises on a path
\* that is not there
ConcClean(c) ==
    /\ call[c].pc = "c_clean"
    /\ LET dst_path == Resolve(DstPath(call[c].dst))
           zip_file == Resolve(ZipPath(call[c].dst))
       IN /\ files' = IF dst_path \in DOMAIN files
                       THEN Drop(files, {dst_path, zip_file})
                       ELSE files
          /\ call' = [call EXCEPT ![c].pc =
                          IF {dst_path, zip_file} \subseteq DOMAIN files
                          THEN "c_save_dicts" ELSE "failed"]
    /\ UNCHANGED <<blobs, records, nextId, ncalls, returned, cwd>>

\* the two save_dict calls of save_model and its return
ConcSaveDicts(c) ==
    /\ call[c].pc = "c_save_dicts"
    /\ records' = Put(Put(records, IdOf(nextId + 1), RecoverInfoDict(c)),
                      IdOf(nextId + 2),
                      [ModelDict(c) EXCEPT !.recover_info = IdOf(nextId + 1)])
    /\ nextId' = nextId + 2
    /\ call' = [call EXCEPT ![c].recover_info_id = IdOf(nextId + 1),
                            ![c].ret = StrVal(IdOf(nextId + 2)), ![c].pc = "done"]
    /\ returned' = returned \cup {IdOf(nextId + 2)}
    /\ UNCHANGED <<blobs, files, ncalls, cwd>>

----
\* The operations whose body is `pass`: they return None and touch nothing.

\* ids a caller passes: a returned model id, or an id the store never issued
KnownIds == returned \cup {IdOf(0)}

StubCall(c, op, m, id) ==
    /\ CanStart(c)
    /\ call' = [call EXCEPT ![c] = [IdleCall EXCEPT !.op = op, !.pc = "done",
                                        !.seq = ncalls + 1,
                                        !.model = m, !.arg = id, !.ret = NoneVal]]
    /\ ncalls' = ncalls + 1
    /\ UNCHANGED <<blobs, records, nextId, files, returned>>

\* save_version(model, base_model_id)
SaveVersion(c, m, base) == StubCall(c, "save_version", m, base)

\* saved_model_ids()
SavedModelIds(c) == StubCall(c, "saved_model_ids", None, None)

\* recover_model(model_id)
RecoverModel(c, id) == StubCall(c, "recover_model", None, id)

\* model_save_size(model_id)
ModelSaveSize(c, id) == StubCall(c, "model_save_size", None, id)

----
\* Restorable-object wrappers: construction.

\* add_params_from_config: init_args[k] = config[VALUES][v] for every config arg
MergeConfig(init_args, config_args, cfg) ==
    [a \in DOMAIN init_args \cup DOMAIN config_args |->
        IF a \in DOMAIN config_args THEN cfg[config_args[a]] ELSE init_args[a]]

\* a wrapper object with the fields the constructors set
Wrapper(kind, class_name, code, import_cmd, init_args, config_args, refs, instance, store_id, state_file) ==
    [kind |-> kind, class_name |-> class_name, code |-> code, import_cmd |-> import_cmd,
     init_args |-> init_args, config_args |-> config_args, init_ref_type_args |-> refs,
     instance |-> instance, store_id |-> store_id, state_file |-> state_file]

\* StateDictRestorableObjectWrapper.__init__: the arguments are handed on by
\* position, so instance lands in import_cmd and store_id in instance; instance
\* is then set again, store_id stays None
StateDictWrapper(class_name, code, instance, store_id) ==
    Wrapper("state_dict", class_name, code, instance, EmptyDict, EmptyDict, NoneVal,
            instance, NoneVal, NoneVal)

\* a child of a StateDictObj: an optimizer wrapper holding a trained optimizer
ChildWrapper ==
    Wrapper("state_file", "SGD", NoneVal, StrVal("from torch.optim import SGD"),
            [a \in {"lr"} |-> "0.01"], EmptyDict, ListVal({}),
            ObjVal("SGD", [a \in {"lr"} |-> "0.01"], {}, "trained"), NoneVal, NoneVal)

\* a StateDictObj with the given state_objs
StateDictObj(children) == [tag |-> "obj", cls |-> "TrainService", state_objs |-> children]

\* the instances a client hands to a StateDictRestorableObjectWrapper
StateDictInstances ==
    {NoneVal, StateDictObj(EmptyDict), StateDictObj([n \in {"optimizer"} |-> ChildWrapper])}

\* the client wraps an object: RestorableObjectWrapper(...) or
\* StateFileRestorableObjectWrapper(...), with or without the live instance
NewWrapper(kind, code, imp, ia, ca, refs, st) ==
    /\ w = NoWrapper
    /\ w' = Wrapper(kind, "Net", code, imp, ia, ca, refs,
                    IF st = None THEN NoneVal
                    ELSE ObjVal("Net", MergeConfig(ia, ca, config), NameSet(refs), st),
                    NoneVal, NoneVal)
    /\ UNCHANGED <<blobs, records, nextId, files, wpc, wdict, wpre, config, last, trip, nops>>

\* the client wraps a StateDictObj: StateDictRestorableObjectWrapper(...)
NewStateDictWrapper(code, inst) ==
    /\ w = NoWrapper
    /\ w' = StateDictWrapper("TrainService", code, inst, NoneVal)
    /\ UNCHANGED <<blobs, records, nextId, files, wpc, wdict, wpre, config, last, trip, nops>>

\* a wrapper operation may start
CanOp == wpc = "idle" /\ w # NoWrapper /\ nops < MaxOps

\* the record of an operation that has just started on w
Started(op, refs) ==
    [op |-> op, result |-> "running", ret |-> NoneVal, refs |-> refs, before |-> w]

----
\* Restorable-object wrappers: persist.

\* the start of _persist_fields: the dict that carries the wrapper's id
IdFields(id) == (MONGO_ID :> id) @@ ("kind" :> RESTORABLE_OBJECT)

\* PersistBegin when an id is generated only for a wrapper that has none
PersistBeginKeepsId ==
    /\ CanOp
    /\ w' = IF IsNone(w.store_id) THEN [w EXCEPT !.store_id = StrVal(IdOf(nextId + 1))] ELSE w
    /\ nextId' = nextId + 1
    /\ wdict' = IdFields(w'.store_id.val)
    /\ wpc' = "fields"
    /\ wpre' = [blobs |-> blobs, records |-> records]
    /\ last' = Started("persist", NoneVal)
    /\ trip' = NoTrip
    /\ nops' = nops + 1
    /\ UNCHANGED <<blobs, records, files, config>>

\* self.store_id = dict_pers_service.generate_id(), and the start of
\* _persist_fields
PersistBegin ==
    /\ CanOp
    /\ w' = [w EXCEPT !.store_id = StrVal(IdOf(nextId + 1))]
    /\ nextId' = nextId + 1
    /\ wdict' = IdFields(IdOf(nextId + 1))
    /\ wpc' = "fields"
    /\ wpre' = [blobs |-> blobs, records |-> records]
    /\ last' = Started("persist", NoneVal)
    /\ trip' = NoTrip
    /\ nops' = nops + 1
    /\ UNCHANGED <<blobs, records, files, config>>

\* the running persist ends with an exception
PersistRaises(error) ==
    /\ wpc' = "idle"
    /\ last' = [last EXCEPT !.result = error]

\* one of the two assertions of _persist_class_specific_fields fails
BothReferencesSet(wr) ==
    \/ Truthy(wr.code) /\ ~IsNone(wr.import_cmd)
    \/ ~Truthy(wr.code) /\ Truthy(wr.import_cmd) /\ ~IsNone(wr.code)

\* the fields _persist_class_specific_fields adds for wrapper wr, whose code
\* file (if any) was saved under code_file_id
ClassFields(wr, d, code_file_id) ==
    LET named == d @@ (CLASS_NAME :> wr.class_name)
        coded == IF Truthy(wr.code) THEN named @@ (CODE_FILE :> code_file_id) ELSE named
        imported == IF Truthy(wr.import_cmd)
                    THEN coded @@ (IMPORT_CMD :> wr.import_cmd) ELSE coded
    IN  IF wr.kind = "state_dict" THEN imported
        ELSE imported @@ (INIT_ARGS :> wr.init_args) @@ (CONFIG_ARGS :> wr.config_args)
                      @@ (INIT_REF_TYPE_ARGS :> wr.init_ref_type_args)

\* the position after the class-specific fields
AfterFields(wr) ==
    CASE wr.kind = "state_dict" -> "children"
      [] wr.kind = "state_file" -> "state"
      [] OTHER -> "record"

\* PersistClassFields with the code file saved before the assertion is made
PersistClassFieldsSaveFirst ==
    /\ wpc = "fields"
    /\ \/ /\ BothReferencesSet(w)
          /\ PersistRaises("AssertionError")
          /\ blobs' = IF Truthy(w.code)
                      THEN Put(blobs, IdOf(nextId + 1), files[w.code.val]) ELSE blobs
          /\ nextId' = IF Truthy(w.code) THEN nextId + 1 ELSE nextId
          /\ UNCHANGED wdict
       \/ /\ ~BothReferencesSet(w)
          /\ Truthy(w.code)
          /\ PersistRaises("StoreError")
          /\ UNCHANGED <<blobs, nextId, wdict>>
       \/ /\ ~BothReferencesSet(w)
          /\ blobs' = IF Truthy(w.code)
                      THEN Put(blobs, IdOf(nextId + 1), files[w.code.val]) ELSE blobs
          /\ nextId' = IF Truthy(w.code) THEN nextId + 1 ELSE nextId
          /\ wdict' = ClassFields(w, wdict, IdOf(nextId + 1))
          /\ wpc' = AfterFields(w)
          /\ UNCHANGED last
    /\ UNCHANGED <<records, files, w, wpre, config, trip, nops>>

\* _persist_class_specific_fields of AbstractRestorableObjectWrapper and of
\* RestorableObjectWrapper
PersistClassFields ==
    /\ wpc = "fields"
    /\ \/ /\ BothReferencesSet(w)
          /\ PersistRaises("AssertionError")
          /\ UNCHANGED <<blobs, nextId, wdict>>
       \/ /\ ~BothReferencesSet(w)
          /\ Truthy(w.code)
          /\ PersistRaises("StoreError")
          /\ UNCHANGED <<blobs, nextId, wdict>>
       \/ /\ ~BothReferencesSet(w)
          /\ blobs' = IF Truthy(w.code)
                      THEN Put(blobs, IdOf(nextId + 1), files[w.code.val]) ELSE blobs
          /\ nextId' = IF Truthy(w.code) THEN nextId + 1 ELSE nextId
          /\ wdict' = ClassFields(w, wdict, IdOf(nextId + 1))
          /\ wpc' = AfterFields(w)
          /\ UNCHANGED last
    /\ UNCHANGED <<records, files, w, wpre, config, trip, nops>>

\* what _save_instance_state writes for an instance
StateContent(inst) == [kind |-> "state", state |-> inst.state]

\* the dict a child's persist builds: its id, its fields and its state file
ChildDict(child, id, state_file_id) ==
    ClassFields(child, IdFields(id), None)
        @@ (STATE_FILE :> state_file_id)

\* the state-dict references collected so far
StateDictRefs == IF STATE_DICT \in DOMAIN wdict THEN wdict[STATE_DICT] ELSE EmptyDict

\* one turn of the loop of StateDictRestorableObjectWrapper's
\* _persist_class_specific_fields: obj_id = obj.persist(...)
PersistChild(k) ==
    /\ wpc = "children"
    /\ Truthy(w.instance)
    /\ k \in DOMAIN w.instance.state_objs \ DOMAIN StateDictRefs
    /\ \/ /\ blobs' = Put(blobs, IdOf(nextId + 2),
                          StateContent(w.instance.state_objs[k].instance))
          /\ records' = Put(records, IdOf(nextId + 1),
                            ChildDict(w.instance.state_objs[k], IdOf(nextId + 1),
                                      IdOf(nextId + 2)))
          /\ nextId' = nextId + 2
          /\ wdict' = Put(wdict, STATE_DICT, Put(StateDictRefs, k, IdOf(nextId + 1)))
          /\ UNCHANGED <<wpc, last>>
       \/ /\ PersistRaises("StoreError")
          /\ UNCHANGED <<blobs, records, nextId, wdict>>
    /\ UNCHANGED <<files, w, wpre, config, trip, nops>>

\* the end of that loop: dict_representation[STATE_DICT] = state_dict_refs;
\* without an instance, self.instance.state_objs raises
PersistChildrenDone ==
    /\ wpc = "children"
    /\ \/ /\ ~Truthy(w.instance)
          /\ PersistRaises("AttributeError")
          /\ UNCHANGED wdict
       \/ /\ Truthy(w.instance)
          /\ DOMAIN w.instance.state_objs = DOMAIN StateDictRefs
          /\ wdict' = Put(wdict, STATE_DICT, StateDictRefs)
          /\ wpc' = "record"
          /\ UNCHANGED last
    /\ UNCHANGED <<blobs, records, nextId, files, w, wpre, config, trip, nops>>

\* PersistState when the state file's id is recorded and the file is not saved
PersistStateNotSaved ==
    /\ wpc = "state"
    /\ \/ /\ Truthy(w.instance)
          /\ nextId' = nextId + 1
          /\ wdict' = Put(wdict, STATE_FILE, IdOf(nextId + 1))
          /\ wpc' = "record"
          /\ UNCHANGED <<blobs, last>>
       \/ /\ Truthy(w.instance)
          /\ PersistRaises("StoreError")
          /\ UNCHANGED <<blobs, nextId, wdict>>
       \/ /\ ~Truthy(w.instance)
          /\ wpc' = "record"
          /\ UNCHANGED <<blobs, nextId, wdict, last>>
    /\ UNCHANGED <<records, files, w, wpre, config, trip, nops>>

\* StateFileRestorableObjectWrapper.persist: if self.instance, the state is
\* written to a temporary file and saved
PersistState ==
    /\ wpc = "state"
    /\ \/ /\ Truthy(w.instance)
          /\ blobs' = Put(blobs, IdOf(nextId + 1), StateContent(w.instance))
          /\ nextId' = nextId + 1
          /\ wdict' = Put(wdict, STATE_FILE, IdOf(nextId + 1))
          /\ wpc' = "record"
          /\ UNCHANGED last
       \/ /\ Truthy(w.instance)
          /\ PersistRaises("StoreError")
          /\ UNCHANGED <<blobs, nextId, wdict>>
       \/ /\ ~Truthy(w.instance)
          /\ wpc' = "record"
          /\ UNCHANGED <<blobs, nextId, wdict, last>>
    /\ UNCHANGED <<records, files, w, wpre, config, trip, nops>>

\* InsertedId when the store always files a document under a new ObjectId
InsertedIdAlwaysNew(d) == IdOf(nextId + 1)

\* MongoService.save_dict without an id argument: insert_one files the document
\* under its own _id, or under a new ObjectId if it has none
InsertedId(d) == IF MONGO_ID \in DOMAIN d THEN d[MONGO_ID] ELSE IdOf(nextId + 1)

\* the content of the file a code reference names, None without one
CodeOf(wr) == IF Truthy(wr.code) THEN files[wr.code.val] ELSE NoneVal

\* dict_pers_service.save_dict(dict_representation, RESTORABLE_OBJECT);
\* return self.store_id
PersistRecord ==
    /\ wpc = "record"
    /\ \/ /\ records' = Put(records, InsertedId(wdict), wdict)
          /\ wpc' = "idle"
          /\ last' = [last EXCEPT !.result = "ok", !.ret = w.store_id]
          /\ trip' = [phase |-> "persisted", id |-> w.store_id.val, orig |-> w,
                      code |-> CodeOf(w)]
       \/ /\ PersistRaises("StoreError")
          /\ UNCHANGED <<records, trip>>
    /\ UNCHANGED <<blobs, nextId, files, w, wdict, wpre, config, nops>>

----
\* Restorable-object wrappers: load.

\* ids of the wrapper records in the store
RestorableIds == {i \in DOMAIN records : records[i].kind = RESTORABLE_OBJECT}

\* file_pers_service.recover_file(file_id, restore_root): the path of the copy
RecoveredPath(file_id) == <<RestoreRoot, file_id>>

\* the keys load reads without asking whether they are there
RequiredKeys(kind) ==
    IF kind = "state_dict" THEN {CLASS_NAME, CODE_FILE}
    ELSE {CLASS_NAME, INIT_ARGS, CONFIG_ARGS, INIT_REF_TYPE_ARGS}

\* the files load recovers for a wrapper of this kind
RecoveredKeys(kind, d) ==
    (IF kind = "state_file" THEN {CODE_FILE, STATE_FILE} ELSE {CODE_FILE}) \cap DOMAIN d

\* the path recovered for key k of dict d, None if d has no such key
RecoveredFile(kind, d, k) ==
    IF k \in RecoveredKeys(kind, d) THEN PathVal(RecoveredPath(d[k])) ELSE NoneVal

\* the wrapper cls.load builds from the restored dict d
LoadedWrapper(kind, id, d) ==
    IF kind = "state_dict"
    THEN StateDictWrapper(d[CLASS_NAME], RecoveredFile(kind, d, CODE_FILE), NoneVal,
                          StrVal(id))
    ELSE Wrapper(kind, d[CLASS_NAME], RecoveredFile(kind, d, CODE_FILE),
                 IF IMPORT_CMD \in DOMAIN d THEN d[IMPORT_CMD] ELSE NoneVal,
                 d[INIT_ARGS], d[CONFIG_ARGS], d[INIT_REF_TYPE_ARGS], NoneVal,
                 StrVal(id), RecoveredFile(kind, d, STATE_FILE))

\* the local files after the recover_file calls of a load
FilesAfterLoad(kind, d) ==
    [p \in DOMAIN files \cup {RecoveredPath(d[k]) : k \in RecoveredKeys(kind, d)} |->
        IF p \in {RecoveredPath(d[k]) : k \in RecoveredKeys(kind, d)}
        THEN blobs[p[2]] ELSE files[p]]

\* cls.load(obj_id, ...) with the class of the wrapper the client holds
Load(id) ==
    /\ CanOp
    /\ nops' = nops + 1
    /\ \/ /\ id \notin RestorableIds
          /\ last' = [Started("load", NoneVal) EXCEPT !.result = "UnknownId"]
          /\ UNCHANGED <<w, files, trip>>
       \/ /\ id \in RestorableIds
          /\ ~(RequiredKeys(w.kind) \subseteq DOMAIN records[id])
          /\ last' = [Started("load", NoneVal) EXCEPT !.result = "KeyError"]
          /\ UNCHANGED <<w, files, trip>>
       \/ /\ id \in RestorableIds
          /\ RequiredKeys(w.kind) \subseteq DOMAIN records[id]
          /\ w' = LoadedWrapper(w.kind, id, records[id])
          /\ files' = FilesAfterLoad(w.kind, records[id])
          /\ last' = [Started("load", NoneVal) EXCEPT !.result = "ok", !.ret = StrVal(id)]
          /\ trip' = IF trip.phase = "persisted" /\ trip.id = id
                     THEN [trip EXCEPT !.phase = "loaded"] ELSE NoTrip
    /\ UNCHANGED <<blobs, records, nextId, wpc, wdict, wpre, config>>

----
\* Restorable-object wrappers: size_in_bytes.

\* recover_dict(self.store_id, RESTORABLE_OBJECT) finds a record
Persisted(wr) == IF IsNone(wr.store_id) THEN FALSE ELSE wr.store_id.val \in RestorableIds

\* RestorableObjectWrapper.size_in_bytes on the record d of the wrapper
SizeOfRecord(d) ==
    DictSize(d)
        + (IF CODE_FILE \in DOMAIN d THEN FileSize(blobs[d[CODE_FILE]]) ELSE 0)
        + FileSize(blobs[d[STATE_FILE]])

\* wrapper.size_in_bytes(file_pers_service, dict_pers_service)
SizeInBytes ==
    /\ CanOp
    /\ nops' = nops + 1
    /\ \/ /\ w.kind = "state_dict"
          /\ last' = [Started("size_in_bytes", NoneVal) EXCEPT !.result = "ok", !.ret = IntVal(0)]
       \/ /\ w.kind # "state_dict"
          /\ ~Persisted(w)
          /\ last' = [Started("size_in_bytes", NoneVal) EXCEPT !.result = "UnknownId"]
       \/ /\ w.kind # "state_dict"
          /\ Persisted(w)
          /\ STATE_FILE \notin DOMAIN records[w.store_id.val]
          /\ last' = [Started("size_in_bytes", NoneVal) EXCEPT !.result = "KeyError"]
       \/ /\ w.kind # "state_dict"
          /\ Persisted(w)
          /\ STATE_FILE \in DOMAIN records[w.store_id.val]
          /\ last' = [Started("size_in_bytes", NoneVal) EXCEPT
                          !.result = "ok",
                          !.ret = IntVal(SizeOfRecord(records[w.store_id.val]))]
    /\ UNCHANGED <<blobs, records, nextId, files, w, wpc, wdict, wpre, config, trip>>

----
\* Restorable-object wrappers: restore_instance.

\* RefArgsMatch when only the declared names start the check
\* (`if self.init_ref_type_args:`)
RefArgsMatchDeclaredOnly(declared, supplied) ==
    Truthy(declared)
        => /\ Truthy(supplied)
           /\ NameSet(supplied) = NameSet(declared)

\* the two assertions of restore_instance pass
RefArgsMatch(declared, supplied) ==
    (Truthy(declared) \/ Truthy(supplied))
        => /\ Truthy(declared) /\ Truthy(supplied)
           /\ NameSet(supplied) = NameSet(declared)

\* init_args after `if len(self.config_args) > 0: add_params_from_config(...)`:
\* init_args is self.init_args itself, so the wrapper's dict is the one updated
RestoredInitArgs(wr, cfg) ==
    IF Cardinality(DOMAIN wr.config_args) > 0
    THEN MergeConfig(wr.init_args, wr.config_args, cfg)
    ELSE wr.init_args

\* the class can be found: from the code file or by the import command
Resolvable(wr) == Truthy(wr.code) \/ Truthy(wr.import_cmd)

\* create_object_with_parameters(code, import_cmd, class_name, init_args,
\* init_ref_type_args): a new instance in the state its constructor leaves
CreateObject(wr, init_args, ref_type_args) ==
    ObjVal(wr.class_name, init_args, NameSet(ref_type_args), FreshState)

\* RestoredInstance when the state is applied first and the object is created
\* after it: the new object is in the state its constructor leaves
RestoredInstanceStateFirst(wr, cfg, ref_type_args) ==
    CreateObject(wr, RestoredInitArgs(wr, cfg), ref_type_args)

\* WithRestoredState when the loaded state is not put into the instance
WithStateNotApplied(inst, path) == inst

\* _restore_instance_state(path): the instance takes the state in the file
WithRestoredState(inst, path) == [inst EXCEPT !.state = files[path.val].state]

\* the instance restore_instance leaves in the wrapper
RestoredInstance(wr, cfg, ref_type_args) ==
    IF wr.kind = "state_file" /\ Truthy(wr.state_file)
    THEN WithRestoredState(CreateObject(wr, RestoredInitArgs(wr, cfg), ref_type_args),
                           wr.state_file)
    ELSE CreateObject(wr, RestoredInitArgs(wr, cfg), ref_type_args)

\* restore_instance(ref_type_args) of RestorableObjectWrapper and of
\* StateFileRestorableObjectWrapper
RestoreInstance(refs) ==
    /\ CanOp
    /\ w.kind \in {"plain", "state_file"}
    /\ nops' = nops + 1
    /\ \/ /\ ~RefArgsMatch(w.init_ref_type_args, refs)
          /\ last' = [Started("restore_instance", refs) EXCEPT !.result = "AssertionError"]
          /\ UNCHANGED <<w, trip>>
       \/ /\ RefArgsMatch(w.init_ref_type_args, refs)
          /\ ~Resolvable(w)
          /\ w' = [w EXCEPT !.init_args = RestoredInitArgs(w, config)]
          /\ last' = [Started("restore_instance", refs) EXCEPT !.result = "ImportError"]
          /\ UNCHANGED trip
       \/ /\ RefArgsMatch(w.init_ref_type_args, refs)
          /\ Resolvable(w)
          /\ w' = [w EXCEPT !.init_args = RestoredInitArgs(w, config),
                            !.instance = RestoredInstance(w, config, refs)]
          /\ last' = [Started("restore_instance", refs) EXCEPT !.result = "ok"]
          /\ trip' = IF trip.phase = "loaded"
                     THEN [trip EXCEPT !.phase = "restored"] ELSE trip
    /\ UNCHANGED <<blobs, records, nextId, files, wpc, wdict, wpre, config>>

\* the file MMLIB_CONFIG names is changed, or the variable names another file
SetConfig(cfg) ==
    /\ CanOp
    /\ cfg # config
    /\ config' = cfg
    /\ nops' = nops + 1
    /\ last' = [Started("set_config", NoneVal) EXCEPT !.result = "ok"]
    /\ UNCHANGED <<blobs, records, nextId, files, w, wpc, wdict, wpre, trip>>

----
NextW ==
    /\ UNCHANGED <<svars, cvars>>
    /\ \/ \E kind \in {"plain", "state_file"}, code \in CodeChoices, imp \in ImportChoices,
             ia \in InitArgsChoices, ca \in ConfigArgsChoices, refs \in DeclaredRefChoices,
             st \in InstanceStates \cup {None} :
                NewWrapper(kind, code, imp, ia, ca, refs, st)
       \/ \E code \in CodeChoices, inst \in StateDictInstances :
                NewStateDictWrapper(code, inst)
       \/ PersistBegin
       \/ PersistClassFields
       \/ \E k \in {"optimizer"} : PersistChild(k)
       \/ PersistChildrenDone
       \/ PersistState
       \/ PersistRecord
       \/ \E id \in RestorableIds \cup {IdOf(0)} : Load(id)
       \/ SizeInBytes
       \/ \E refs \in SuppliedRefChoices : RestoreInstance(refs)
       \/ \E cfg \in Configs : SetConfig(cfg)

SpecW == Init /\ [][NextW]_vars

----
Next ==
    /\ UNCHANGED <<wvars, cvars>>
    /\ \E c \in Callers :
           \/ \E m \in Weights, g \in GenerateCalls : SaveModelBegin(c, m, g)
           \/ PickleModel(c)
           \/ Zip(c)
           \/ SaveZipFile(c)
           \/ SaveCodeFile(c)
           \/ Clean(c)
           \/ SaveRecoverInfo(c)
           \/ SaveModelInfo(c)
           \/ \E m \in Weights, b \in KnownIds : SaveVersion(c, m, b)
           \/ SavedModelIds(c)
           \/ \E id \in KnownIds : RecoverModel(c, id)
           \/ \E id \in KnownIds : ModelSaveSize(c, id)

Spec == Init /\ [][Next]_vars

----
NextC ==
    /\ UNCHANGED <<wvars, tmp_abs>>
    /\ \E c \in Callers :
           \/ \E m \in Weights, g \in GenerateCalls : ConcSaveModel(c, m, g)
           \/ ConcPickleModel(c)
           \/ ConcZipEnter(c)
           \/ ConcZipDir(c)
           \/ ConcZipLeave(c)
           \/ ConcSaveFiles(c)
           \/ ConcClean(c)
           \/ ConcSaveDicts(c)

SpecC == InitC /\ [][NextC]_vars

----
\* Claims about the orchestrator.

\* ids of the ModelRecords in the store
ModelIds == {i \in DOMAIN records : records[i].kind = MODEL_INFO}

\* every record and blob a ModelRecord refers to is in the store
FullyWritten(id) ==
    /\ id \in ModelIds
    /\ records[id].recover_info \in DOMAIN records
    /\ records[records[id].recover_info].kind = RECOVER_T1
    /\ records[records[id].recover_info].pickled_model \in DOMAIN blobs
    /\ records[records[id].recover_info].model_code \in DOMAIN blobs

\* C1: an id returned by save_model refers to a ModelRecord whose RecoverInfo
\* record, weight-archive blob and code blob are all in the store, whatever
\* store errors were raised in this or in other calls.
C1_ReturnedIdsAreFullyWritten ==
    /\ \A id \in returned : FullyWritten(id)
    /\ \A c \in Callers :
        (call[c].op = "save_model" /\ call[c].pc = "done")
            => (call[c].ret.tag = "str" /\ FullyWritten(call[c].ret.val))

\* one save_model has returned an id and another has failed on a store error
C1_Witness ==
    /\ returned # {}
    /\ \E c \in Callers : call[c].op = "save_model" /\ call[c].pc = "failed"
                            /\ call[c].zip_file_id # None

\* C2: a completed save_version(model, base) has returned the id of a
\* ModelRecord whose derived_from is base.
C2_VersionDerivedFromBase ==
    \A c \in Callers :
        (call[c].op = "save_version" /\ call[c].pc = "done" /\ call[c].arg \in ModelIds)
            => /\ call[c].ret.tag = "str"
               /\ call[c].ret.val \in ModelIds
               /\ records[call[c].ret.val].derived_from = call[c].arg

\* the record reached after n steps along derived_from, None once a root is passed
RECURSIVE Ancestor(_, _)
Ancestor(id, n) ==
    IF n = 0 \/ id = None THEN id
    ELSE IF id \in ModelIds THEN Ancestor(records[id].derived_from, n - 1)
    ELSE id

\* C3: derived_from of every ModelRecord is absent or the id of a ModelRecord,
\* and walking derived_from from any ModelRecord reaches an absent derived_from
\* within as many steps as there are ModelRecords.
C3_LineageIsForest ==
    \A id \in ModelIds :
        /\ records[id].derived_from \in ModelIds \cup {None}
        /\ Ancestor(id, Cardinality(ModelIds) + 1) = None

\* two ModelRecords are stored and a save_version call on one has completed
C3_Witness ==
    /\ Cardinality(ModelIds) >= 2
    /\ \E c \in Callers : call[c].op = "save_version" /\ call[c].pc = "done"
                            /\ call[c].arg \in ModelIds

\* C4: once a save call has ended, by return or by an error, neither its
\* staging directory nor its archive file exists under the temporary root.
C4_NoStagingLeftBehind ==
    \A c \in Callers :
        (call[c].op = "save_model" /\ call[c].pc \in {"done", "failed"})
            => /\ DstPath(call[c].dst) \notin DOMAIN files
               /\ ZipPath(call[c].dst) \notin DOMAIN files

\* the weight state stored for a ModelRecord
SavedWeights(id) == blobs[records[records[id].recover_info].pickled_model].of.model

\* C9: recover_model of an id returned by save_model returns an object whose
\* weight state is the weight state that was saved.
C9_RecoverReturnsSavedWeights ==
    \A c \in Callers :
        (call[c].op = "recover_model" /\ call[c].pc = "done" /\ call[c].arg \in returned)
            => /\ call[c].ret.tag = "obj"
               /\ call[c].ret.weights = SavedWeights(call[c].arg)

\* the step in which caller c starts (and, for a stub, completes) a call of op
Calls(c, op) ==
    /\ ncalls' = ncalls + 1
    /\ call'[c].seq = ncalls'
    /\ call'[c].op = op

\* C10: a saved_model_ids call returns exactly the ids of the ModelRecords in
\* the store and leaves the store as it is.
C10_SavedModelIdsEnumerates ==
    [][\A c \in Callers :
        (Calls(c, "saved_model_ids") /\ call'[c].pc = "done")
            => /\ call'[c].ret.tag = "list"
               /\ call'[c].ret.val = ModelIds
               /\ records' = records
               /\ blobs' = blobs]_vars

\* C11: a completed recover_model call on an id that names no ModelRecord has
\* failed with UnknownModelId, it has not returned a value, and the store is as
\* it was before the call.
C11_UnknownIdFails ==
    [][\A c \in Callers :
        (Calls(c, "recover_model") /\ call'[c].arg \notin ModelIds)
            => /\ call'[c].pc = "failed"
               /\ records' = records
               /\ blobs' = blobs]_vars

\* the archive blob holds the zipped staging directory of weights m
IsArchiveOf(b, m) == b.kind = "zip" /\ b.of.kind = "dir" /\ b.of.model = m

\* C12: a completed save_model has returned the id of a ModelRecord whose
\* derived_from is absent, whose store_type is the full pickled snapshot, and
\* whose recover_info is the id of a RecoverInfo record that holds the id of the
\* blob with the call's zipped weights, the id of the blob with the code file,
\* and the constructor identity the caller passed.
C12_SaveModelRecord ==
    \A c \in Callers :
        (call[c].op = "save_model" /\ call[c].pc = "done")
            => /\ call[c].ret.tag = "str"
               /\ call[c].ret.val \in ModelIds
               /\ records[call[c].ret.val].derived_from = None
               /\ records[call[c].ret.val].store_type = PICKLED_MODEL
               /\ LET ri == records[call[c].ret.val].recover_info
                  IN /\ ri \in DOMAIN records
                     /\ records[ri].kind = RECOVER_T1
                     /\ records[ri].pickled_model \in DOMAIN blobs
                     /\ IsArchiveOf(blobs[records[ri].pickled_model], call[c].model)
                     /\ records[ri].model_code \in DOMAIN blobs
                     /\ blobs[records[ri].model_code] = CodeContent
                     /\ records[ri].generate_call = call[c].generate_call
                     /\ call[c].generate_call \in GenerateCalls

\* both callers have completed a save_model, of different weights
C12_Witness ==
    \E c, d \in Callers :
        /\ call[c].op = "save_model" /\ call[c].pc = "done"
        /\ call[d].op = "save_model" /\ call[d].pc = "done"
        /\ call[c].model # call[d].model

\* C14: a completed model_save_size call on a saved model has returned a number
\* that is at least the size of each blob the model's records refer to and at
\* least the sum of the sizes of those blobs.
C14_SizeCoversBlobs ==
    \A c \in Callers :
        (call[c].op = "model_save_size" /\ call[c].pc = "done" /\ call[c].arg \in returned)
            => /\ call[c].ret.tag = "int"
               /\ LET ri == records[records[call[c].arg].recover_info]
                      archive == FileSize(blobs[ri.pickled_model])
                      code == FileSize(blobs[ri.model_code])
                  IN /\ call[c].ret.val >= archive
                     /\ call[c].ret.val >= code
                     /\ call[c].ret.val >= archive + code

\* C15: no step of a save or recover operation changes or removes a record
\* that is in the store: records are only added.
C15_RecordsNeverMutated ==
    [][\A i \in DOMAIN records : i \in DOMAIN records' /\ records'[i] = records[i]]_vars

\* records of two saves are in the store and a recover_model call on a stored
\* model has completed after them
C15_Witness ==
    /\ Cardinality(ModelIds) >= 2
    /\ \E c \in Callers : call[c].op = "recover_model" /\ call[c].pc = "done"
                            /\ call[c].arg \in ModelIds

\* C16: while threads run save_model concurrently on one service, every file
\* written for a call lies in that call's staging directory, or is its archive
\* beside it, under the temporary root, and the archive of a call holds that
\* call's own weights.
C16_StagingFilesKeptApart ==
    /\ \A p \in DOMAIN files \ {CodePath} :
          \E n \in 1..nextId : p \in {DstPath(IdOf(n)), ZipPath(IdOf(n))}
    /\ \A c \in Callers :
          (call[c].op = "save_model" /\ ZipPath(call[c].dst) \in DOMAIN files)
              => IsArchiveOf(files[ZipPath(call[c].dst)], call[c].model)

----
\* Claims about the wrappers.

\* C5: a restore_instance whose supplied reference-argument names are not the
\* declared ones ends in the assertion's error and leaves the wrapper's instance
\* as it was before the call.
C5_MismatchFailsWithoutConstruction ==
    (/\ last.op = "restore_instance"
     /\ NameSet(last.refs) # NameSet(last.before.init_ref_type_args))
        => /\ last.result = "AssertionError"
           /\ w.instance = last.before.instance

\* a wrapper that declares a reference argument and holds an instance was
\* restored with no reference arguments
C5_Witness ==
    /\ last.op = "restore_instance"
    /\ last.result = "AssertionError"
    /\ NameSet(last.before.init_ref_type_args) = {"net"}
    /\ IsNone(last.refs)
    /\ Truthy(w.instance)

\* C6: a persist of a wrapper with both a code reference and an import
\* reference writes no blob and no record, and ends in the assertion's error.
C6_BothReferencesFailBeforeWrite ==
    (/\ last.op = "persist"
     /\ Truthy(last.before.code)
     /\ Truthy(last.before.import_cmd))
        => /\ blobs = wpre.blobs
           /\ records = wpre.records
           /\ wpc \in {"fields", "idle"}
           /\ (wpc = "idle" => last.result = "AssertionError")

\* a state-file wrapper with code, import command and a live instance was
\* persisted, and the persist has ended
C6_Witness ==
    /\ last.op = "persist"
    /\ wpc = "idle"
    /\ last.result = "AssertionError"
    /\ w.kind = "state_file"
    /\ Truthy(w.code) /\ Truthy(w.import_cmd) /\ Truthy(w.instance)

\* C7: every wrapper record in the store has exactly one of code_file and
\* import_cmd, and a persist of a wrapper with neither ends in the same error
\* as one with both.
C7_ExactlyOneReference ==
    /\ \A id \in RestorableIds :
        (CODE_FILE \in DOMAIN records[id]) # (IMPORT_CMD \in DOMAIN records[id])
    /\ (/\ last.op = "persist"
        /\ wpc = "idle"
        /\ ~Truthy(last.before.code)
        /\ ~Truthy(last.before.import_cmd))
            => last.result = "AssertionError"

BlobsSize(d) ==
    (IF CODE_FILE \in DOMAIN d THEN FileSize(blobs[d[CODE_FILE]]) ELSE 0)
        + (IF STATE_FILE \in DOMAIN d THEN FileSize(blobs[d[STATE_FILE]]) ELSE 0)

\* the sum of the record and blob sizes of the wrapper records with ids in S
RECURSIVE ChildrenSize(_)
ChildrenSize(S) ==
    IF S = {} THEN 0
    ELSE LET i == CHOOSE x \in S : TRUE
         IN DictSize(records[i]) + BlobsSize(records[i]) + ChildrenSize(S \ {i})

\* ids of the child records a composite's record refers to
ChildIds(d) == IF STATE_DICT \in DOMAIN d THEN {d[STATE_DICT][k] : k \in DOMAIN d[STATE_DICT]} ELSE {}

\* C13: size_in_bytes of a wrapper whose record is in the store returns the
\* size of that record plus the sizes of the code blob and the state blob the
\* record refers to, where it has them, plus the sizes of the children of a
\* composite.
C13_SizeIsRecordPlusBlobs ==
    (last.op = "size_in_bytes" /\ w # NoWrapper /\ Persisted(w))
        => /\ last.result = "ok"
           /\ last.ret.tag = "int"
           /\ last.ret.val = DictSize(records[w.store_id.val])
                                + BlobsSize(records[w.store_id.val])
                                + ChildrenSize(ChildIds(records[w.store_id.val]))

\* C17: a persist of a composite constructed with a code reference and a live
\* instance succeeds unless the store fails; its record maps every name of the
\* instance's state_objs to the id of a wrapper record written during this
\* persist.
C17_CompositePersistsChildren ==
    (/\ last.op = "persist" /\ wpc = "idle"
     /\ last.before.kind = "state_dict"
     /\ Truthy(last.before.code)
     /\ Truthy(last.before.instance)
     /\ last.result # "StoreError")
        => /\ last.result = "ok"
           /\ last.ret.val \in RestorableIds
           /\ STATE_DICT \in DOMAIN records[last.ret.val]
           /\ DOMAIN records[last.ret.val][STATE_DICT]
                  = DOMAIN last.before.instance.state_objs
           /\ \A i \in ChildIds(records[last.ret.val]) :
                  i \in RestorableIds \ DOMAIN wpre.records

\* C18: the step that completes a persist of a state-file wrapper returns an id
\* under which the store held no record before the step and holds one after
\* it, and every record the store held before is still there unchanged; so the
\* ids of successive persists differ from each other.
C18_PersistMintsNewId ==
    [][(wpc = "record" /\ last'.result = "ok" /\ w.kind = "state_file")
           => /\ last'.ret.tag = "str"
              /\ last'.ret.val \notin DOMAIN records
              /\ last'.ret.val \in DOMAIN records'
              /\ \A i \in DOMAIN records : records'[i] = records[i]]_vars

\* a state-file wrapper whose record was in the store has been persisted again
C18_Witness ==
    /\ last.op = "persist" /\ last.result = "ok"
    /\ last.before.kind = "state_file"
    /\ Truthy(last.before.instance)
    /\ Persisted(last.before)
    /\ last.ret # last.before.store_id

C20_BlobsBeforeRecord ==
    /\ \A i \in RestorableIds :
          /\ CODE_FILE \in DOMAIN records[i] => records[i][CODE_FILE] \in DOMAIN blobs
          /\ STATE_FILE \in DOMAIN records[i] => records[i][STATE_FILE] \in DOMAIN blobs
          /\ ChildIds(records[i]) \subseteq RestorableIds
    /\ wpc \in {"children", "state", "record"}
          => /\ CODE_FILE \in DOMAIN wdict => wdict[CODE_FILE] \in DOMAIN blobs
             /\ STATE_FILE \in DOMAIN wdict => wdict[STATE_FILE] \in DOMAIN blobs

\* a record that refers to a code blob and to a state blob is in the store
C20_Witness ==
    \E i \in RestorableIds : {CODE_FILE, STATE_FILE} \subseteq DOMAIN records[i]

----
\* Further claims about the orchestrator.

\* the records in the store that refer to blob or record id x
Referring(x) ==
    {i \in DOMAIN records :
        \/ records[i].kind = RECOVER_T1 /\ x \in {records[i].pickled_model, records[i].model_code}
        \/ records[i].kind = MODEL_INFO /\ records[i].recover_info = x}

\* C21: a save_model that ended on an error wrote nothing after the failed
\* step: no record refers to a blob it uploaded unless it also wrote its
\* RecoverInfo, no ModelRecord refers to its RecoverInfo, it returned nothing,
\* the blobs and the RecoverInfo it did write are still in the store, and the
\* ModelRecords in the store are exactly those of the calls that returned.
C21_ErrorAbortsRemainingSteps ==
    /\ ModelIds = returned
    /\ \A c \in Callers :
          (call[c].op = "save_model" /\ call[c].pc = "failed")
              => /\ call[c].ret = NoneVal
                 /\ (call[c].zip_file_id = None \/ call[c].code_file_id = None)
                        => call[c].recover_info_id = None
                 /\ call[c].zip_file_id # None
                        => /\ call[c].zip_file_id \in DOMAIN blobs
                           /\ Referring(call[c].zip_file_id) \subseteq {call[c].recover_info_id}
                 /\ call[c].code_file_id # None
                        => /\ call[c].code_file_id \in DOMAIN blobs
                           /\ Referring(call[c].code_file_id) \subseteq {call[c].recover_info_id}
                 /\ call[c].recover_info_id # None
                        => /\ call[c].recover_info_id \in DOMAIN records
                           /\ Referring(call[c].recover_info_id) = {}

\* one save_model has failed on the upload of the code, after the archive was
\* uploaded, and another on the write of the ModelRecord
C21_Witness ==
    \E c, d \in Callers :
        /\ call[c].op = "save_model" /\ call[c].pc = "failed"
        /\ call[c].zip_file_id # None /\ call[c].code_file_id = None
        /\ call[d].op = "save_model" /\ call[d].pc = "failed"
        /\ call[d].recover_info_id # None

\* the constructor name kept by the RecoverInfo of ModelRecord id
CodeIdentity(id) == records[records[id].recover_info].generate_call

\* C24: a completed save_version(model, base) has returned the id of a
\* ModelRecord whose RecoverInfo holds the constructor name that the
\* RecoverInfo of base holds.
C24_VersionKeepsCodeIdentity ==
    \A c \in Callers :
        (call[c].op = "save_version" /\ call[c].pc = "done" /\ call[c].arg \in returned)
            => /\ call[c].ret.tag = "str"
               /\ FullyWritten(call[c].ret.val)
               /\ CodeIdentity(call[c].ret.val) = CodeIdentity(call[c].arg)

----
\* Further claims about the wrappers.

\* C22: a completed restore_instance leaves the wrapper's literal init_args as
\* they were before it, and the instance is constructed with those arguments
\* and the config arguments taken from the configuration of that moment.
C22_RestoreKeepsLiteralArgs ==
    (last.op = "restore_instance" /\ last.result = "ok")
        => /\ w.init_args = last.before.init_args
           /\ w.instance.args
                  = MergeConfig(last.before.init_args, last.before.config_args, config)

\* C23: after restore_instance on a state-file wrapper, the instance is the
\* newly constructed object with the state of the state file put into it if
\* the wrapper has a state file, the newly constructed object as its
\* constructor left it if the wrapper has none, and the instance the wrapper
\* had before if the reference arguments were refused or construction failed.
C23_StateAfterConstruction ==
    (last.op = "restore_instance" /\ last.before.kind = "state_file")
        => /\ (last.result = "ok" /\ Truthy(last.before.state_file))
                 => /\ w.instance.state = files[last.before.state_file.val].state
                    /\ w.instance.cls = last.before.class_name
                    /\ w.instance.refs = NameSet(last.refs)
           /\ (last.result = "ok" /\ ~Truthy(last.before.state_file))
                 => w.instance.state = FreshState
           /\ last.result # "ok" => w.instance = last.before.instance

\* a state-file wrapper loaded with a state file has been restored, and the
\* state put into the new instance is not the one its constructor leaves
C23_Witness ==
    /\ last.op = "restore_instance" /\ last.result = "ok"
    /\ last.before.kind = "state_file"
    /\ Truthy(last.before.state_file)
    /\ w.instance.state # FreshState

====
